---- MODULE Spec2Model ----
(***************************************************************************)
(* The procedural level generation engine of planck-time-trials:           *)
(* LevelBuilder::generate (src/src/game/level/level_builder.rs) driven by  *)
(* generate_level_based_on_date, which Game::new and Game::reset call.     *)
(*                                                                         *)
(* Weights are f32 in the source.  The model keeps them exact: a weight is *)
(* an integer, and a draw of random_range(0.0..total) is u/Res * total for *)
(* a raw value u in 0..Res-1, so the running value spawn_value is kept in  *)
(* units of 1/Res (weight w counts as w*Res).  Rounding of f32 sums is not *)
(* modelled.                                                               *)
(***************************************************************************)
EXTENDS Integers, Sequences, FiniteSets, TLC

\* ---------------------------------------------------------------- bounds
MaxOps == 3         \* longest registry
MaxBlocks == 3      \* largest num_blocks requested
MaxWeight == 2      \* largest weight a prepare hook writes
Res == 4            \* resolution of the random source: raw values 0..Res-1
MaxRuns == 2        \* generation runs (Game::new, then Game::reset)
MaxEvents == 2      \* key events one update call finds
MaxMessages == 2    \* messages one ui.draw call returns
MaxTicks == 3       \* simulation steps of a run that are counted
MaxFinishes == 2    \* runs that reach the finish

\* ---------------------------------------------------------- the operations
\* The operation variants.  Their bodies (default_spawn_chance, prepare,
\* execute) live in level_blocks/*.rs; they are modelled from the design
\* document.  "Other" stands for any operation whose prepare hook may write
\* any weight to any candidate and whose execute has the whole context.
OpKinds == {"Spawn", "Finish", "Straight", "Reverse", "Other"}

default_spawn_chance(op) ==
    CASE op = "Spawn" -> 1
      [] op = "Finish" -> 1
      [] op = "Straight" -> 3
      [] op = "Reverse" -> 1
      [] OTHER -> 1

\* The weights a prepare hook of "Other" may write: negative, zero, raised.
Weights == {0 - 1, 0, MaxWeight}

SetChance(cands, i, w) == [cands EXCEPT ![i].chance = w]

\* prepare(context, candidates) of the operation at registry position k:
\* the set of candidate lists it may leave behind.
prepare(op, k, first, last, changed, cands) ==
    CASE op = "Spawn" -> {IF first THEN cands ELSE SetChance(cands, k, 0)}
      [] op = "Finish" -> {IF last THEN cands ELSE SetChance(cands, k, 0)}
      [] op = "Straight" -> {cands}
      [] op = "Reverse" -> {IF changed THEN SetChance(cands, k, 0) ELSE cands}
      [] OTHER -> {cands} \cup
                  {SetChance(cands, i, w) : i \in 1..Len(cands), w \in Weights}

\* What a prepare call leaves of the context it is handed: a hook reads the
\* context and writes the candidate list only.
prepare_contextMutant(op, ctx) ==
    IF op = "Reverse" THEN [ctx EXCEPT !.x_direction_changed = FALSE] ELSE ctx
prepare_context(op, ctx) == ctx

\* ------------------------------------------------------- the random source
\* Pcg64 is a deterministic generator: state -> (raw value, next state).
\* Here the state is the last two raw values and the next one is their sum,
\* so that every pair of first draws belongs to some seed.
RngRaw(s) == (s.a + s.b) % Res
RngNext(s) == [a |-> s.b, b |-> RngRaw(s)]

\* Random::seed_from_beginning_of_day(): the generator state for a day.
seed_from_beginning_of_day(d) == [a |-> d % Res, b |-> (d \div Res) % Res]

\* rng.random_range(0.0..total): raw/Res * total, in units of 1/Res.
random_rangeMutant(s, total) == (RngRaw(s) + 1) * total
random_range(s, total) == RngRaw(s) * total

\* -------------------------------------------------------------- the state
VARIABLES
    level_builder_operations_registry,  \* LevelBuilder's registry (kinds)
    num_blocks,                         \* generate's argument
    day,                                \* the calendar day of this run
    cursor, x_direction, x_direction_changed,
    operations, is_first, is_last, rng, \* LevelBuilderContext
    pc, bi,                             \* position in generate, block index
    spawn_chance_operations,            \* the candidate list of the block
    pi,                                 \* next registry entry to prepare
    spawn_chance_total, spawn_value,
    ci,                                 \* candidate the walk looks at
    executed,                           \* execute calls in this block
    drawn,                              \* random_range calls in this block
    prepLog,                            \* prepare calls of this block
    blk,                                \* the context as the block found it
    draws,                              \* the draws of this run
    ran,                                \* the execute calls of this run, in order
    path,                               \* cursor and direction after each block
    run, prev,                          \* run number, the previous run
    game_state,                         \* Game::game_state
    ui_game_state, name_input,          \* GameUI::game_state, GameUI::name_input
    ui_total_time,                      \* GameUI::total_time, in steps
    irc_manager, current_nickname,      \* Option as a list of at most one
    total_time,                         \* Game::total_time, in steps of 0.005
    game_ended,                         \* some car has game_ended
    sent, scores,                       \* BEST_TIME messages, add_score calls
    settings,                           \* settings.player_name as saved
    stepped,                            \* the last update stepped the simulation
    handler,                            \* the handler that ran last
    events, should_reset,               \* what the last update call found
    resets,                             \* Game::reset calls so far
    ui_messages                         \* what the last ui.draw returned

ctxVars == <<cursor, x_direction, x_direction_changed, operations,
             is_first, is_last, rng>>
loopVars == <<pc, bi, spawn_chance_operations, pi, spawn_chance_total,
              spawn_value, ci>>
obsVars == <<executed, drawn, prepLog, blk, draws, ran, path>>
levelVars == <<level_builder_operations_registry, num_blocks, day, ctxVars,
               loopVars, obsVars, run, prev>>
gameFields == <<game_state, ui_game_state, name_input, ui_total_time, irc_manager,
                current_nickname, total_time, game_ended, sent, scores, settings,
                stepped>>
gameVars == <<gameFields, handler, events, should_reset, resets, ui_messages>>
vars == <<levelVars, gameVars>>

registry == level_builder_operations_registry

\* LevelBuilderOperationRegistry::register: the registry is a list, and a
\* registered operation goes to its end whatever the list holds already.
register(reg, op) == Append(reg, op)

\* The registries that n register calls build.
RECURSIVE RegistriesOfLen(_)
RegistriesOfLen(n) ==
    IF n = 0 THEN {<<>>}
    ELSE {register(reg, op) : reg \in RegistriesOfLen(n - 1), op \in OpKinds}

Registries == UNION {RegistriesOfLen(n) : n \in 0..MaxOps}
Days == 0..(Res * Res - 1)

\* ------------------------------------------------------------- operators
\* Each step of generate is an operator; an operator named ...Mutant is the
\* same step with a slip in it, used to show that a property depends on it.
\* LevelBuilderContext::new
Origin == [x |-> 0, y |-> 0]

\* is_first / is_last as generate sets them at the top of the loop
IsFirstMutant(b) == b <= 1
IsFirst(b) == b = 0
IsLastMutant(b, n) == b = n
IsLast(b, n) == b = n - 1

\* for bi in 0..num_blocks: the index of the block after block b, reached
\* by `continue` and by the end of the loop body alike
NextBlockMutant(b) == b
NextBlock(b) == b + 1

\* step 1: one (default_spawn_chance, box_clone) pair per registry entry
FreshCandidates(reg) ==
    [i \in 1..Len(reg) |-> [chance |-> default_spawn_chance(reg[i]), op |-> reg[i]]]

BuildCandidatesOnceMutant(reg) ==
    LET first == [i \in 1..Len(reg) |-> \A j \in 1..(i - 1) : reg[j] # reg[i]]
        F[i \in 0..Len(reg)] ==
            IF i = 0 THEN <<>>
            ELSE IF first[i] THEN Append(F[i - 1], reg[i]) ELSE F[i - 1]
    IN FreshCandidates(F[Len(reg)])
BuildCandidatesMutant(reg) == [i \in 1..Len(reg) |-> [chance |-> 1, op |-> reg[i]]]
BuildCandidates(reg) == FreshCandidates(reg)

\* step 2: the list handed to the next prepare call
PrepareInputMutant(cands, reg) == FreshCandidates(reg)
PrepareInput(cands, reg) == cands

\* step 2: the registry entry the p-th prepare call goes to
PrepareTargetMutant(p, n) == n + 1 - p
PrepareTarget(p, n) == p

\* step 3: the sum of the candidate weights
RECURSIVE SumChances(_)
SumChances(cands) ==
    IF cands = <<>> THEN 0
    ELSE Head(cands).chance + SumChances(Tail(cands))

NothingToSpawnMutant(total) == total < 0
NothingToSpawn(total) == total <= 0

\* step 4: the test that picks the item
PickedMutant(v) == v < 0
Picked(v) == v <= 0

\* step 4: where the walk goes on after execute (break leaves the loop)
AfterExecuteMutant(i, n) == i + 1
AfterExecute(i, n) == n + 1

\* context.operations.push(operation.box_clone())
PushCloneMutant(ops, op) == Append(Append(ops, op), op)
PushCloneFrontMutant(ops, op) == <<op>> \o ops
PushClone(ops, op) == Append(ops, op)


\* operation.execute(context): what the selected operation does to the
\* context, as the set of contexts it may leave (cursor, direction, flags).
\* Every operation advances the cursor; "Reverse" drops, turns round and
\* sets x_direction_changed; "Other" may also write the two block flags.
execute(op, cur, dir, changed, first, last) ==
    CASE op = "Reverse" ->
            {[cursor |-> [x |-> cur.x, y |-> cur.y - 1], x_direction |-> 0 - dir,
              x_direction_changed |-> TRUE, is_first |-> first, is_last |-> last]}
      [] op = "Other" ->
            {[cursor |-> [x |-> cur.x + dir, y |-> cur.y], x_direction |-> dir,
              x_direction_changed |-> changed, is_first |-> TRUE, is_last |-> TRUE],
             [cursor |-> [x |-> cur.x + dir, y |-> cur.y], x_direction |-> dir,
              x_direction_changed |-> changed, is_first |-> first, is_last |-> last]}
      [] OTHER ->
            {[cursor |-> [x |-> cur.x + dir, y |-> cur.y], x_direction |-> dir,
              x_direction_changed |-> changed, is_first |-> first, is_last |-> last]}

\* What a finished block leaves for the record: the cursor, the direction,
\* and whether its weight total left nothing to spawn.
BlockResult(total) ==
    [cursor |-> cursor, x_direction |-> x_direction, nothing |-> total <= 0]

\* generate_level_based_on_date, line 55: the random source of a run
RunSeedMutant(d, old) == old
RunSeed(d, old) == seed_from_beginning_of_day(d)

\* --------------------------------------------------------------- the game
\* GameState
GameStates == {"NameEntry", "Playing", "Finished"}

\* Texts of the name input, and str::trim on them.
Names == {"", " ", "ann", " bob "}
trim(s) == CASE s = " " -> "" [] s = " bob " -> "bob" [] OTHER -> s

\* GameEvent::KeyboardInput { key_code, state }
KeyEvents ==
    {[key |-> "KeyR", pressed |-> TRUE], [key |-> "KeyR", pressed |-> FALSE],
     [key |-> "KeyA", pressed |-> TRUE]}

\* The lists of at most n elements of S.
SeqsUpTo(S, n) == UNION {[1..k -> S] : k \in 0..n}

\* Message, the two variants a widget can send.
SubmitName == [type |-> "SubmitName", name |-> ""]
UpdateNameInput(s) == [type |-> "UpdateNameInput", name |-> s]

\* The messages the widgets of each view can send: the name entry has a
\* text input with a submit; the HUD and the leaderboard only show text.
name_entry_view == {SubmitName} \cup {UpdateNameInput(s) : s \in Names}
leaderboard_view == {}
hud_view == {}

\* GameUI::view
view(state) ==
    CASE state = "NameEntry" -> name_entry_view
      [] state = "Finished" -> leaderboard_view
      [] OTHER -> hud_view

\* The fields of Game and of its GameUI as they stand.
Game ==
    [game_state |-> game_state, ui_game_state |-> ui_game_state,
     name_input |-> name_input, ui_total_time |-> ui_total_time,
     irc_manager |-> irc_manager, current_nickname |-> current_nickname,
     total_time |-> total_time, game_ended |-> game_ended,
     sent |-> sent, scores |-> scores, settings |-> settings,
     stepped |-> stepped]

\* Game::new with the player name that Settings::load found (<<>>: none).
new(saved) ==
    LET state == IF saved # <<>> THEN "Playing" ELSE "NameEntry"
        nickname == IF saved # <<>> THEN saved[1] ELSE "Player"
    IN [game_state |-> state, ui_game_state |-> state,
        name_input |-> "", ui_total_time |-> 0,
        irc_manager |-> IF state = "Playing" THEN <<nickname>> ELSE <<>>,
        current_nickname |-> nickname,
        total_time |-> 0, game_ended |-> FALSE,
        sent |-> 0, scores |-> 0, settings |-> saved, stepped |-> FALSE]

\* Game::reset
resetMutant(g) ==
    [g EXCEPT !.total_time = 0, !.game_state = "Playing", !.game_ended = FALSE,
              !.ui_total_time = 0]
reset(g) ==
    [g EXCEPT !.total_time = 0, !.game_state = "Playing", !.game_ended = FALSE,
              !.ui_game_state = "Playing", !.ui_total_time = 0]

\* Game::update, lines 248-262: R pressed while the run is finished
ShouldResetMutant(evs, state) ==
    \E i \in 1..Len(evs) : evs[i].key = "KeyR" /\ evs[i].pressed
ShouldReset(evs, state) ==
    \E i \in 1..Len(evs) :
        evs[i].key = "KeyR" /\ evs[i].pressed /\ state = "Finished"

\* Game::update, lines 289-305: the run is over
finish(g) ==
    [g EXCEPT !.game_state = "Finished", !.ui_game_state = "Finished",
              !.sent = IF g.irc_manager # <<>> THEN @ + 1 ELSE @,
              !.scores = @ + 1]

\* Game::update, lines 275-316: one simulation step; ends tells whether the
\* entity system found a car at the finish in this step.
simulateMutant(g, ends) ==
    LET timed == IF g.game_state = "Playing"
                    THEN [g EXCEPT !.total_time = @ + 1,
                                   !.ui_total_time = g.total_time + 1]
                    ELSE g
        moved == [timed EXCEPT !.game_ended = @ \/ ends, !.stepped = TRUE]
    IN IF moved.game_ended THEN finish(moved) ELSE moved
simulate(g, ends) ==
    LET timed == IF g.game_state = "Playing"
                    THEN [g EXCEPT !.total_time = @ + 1,
                                   !.ui_total_time = g.total_time + 1]
                    ELSE g
        moved == [timed EXCEPT !.game_ended = @ \/ ends, !.stepped = TRUE]
    IN IF moved.game_state = "Playing" /\ moved.game_ended
          THEN finish(moved)
          ELSE moved

\* Game::update: the events, the reset, the return of lines 269-273 while
\* the name is being entered, and the simulation step otherwise.
updateMutant(g, evs, ends) ==
    LET begun == IF ShouldReset(evs, g.game_state) THEN reset(g) ELSE g
    IN simulate([begun EXCEPT !.stepped = FALSE], ends)
update(g, evs, ends) ==
    LET begun == IF ShouldReset(evs, g.game_state) THEN reset(g) ELSE g
        idle == [begun EXCEPT !.stepped = FALSE]
    IN IF idle.game_state = "NameEntry" THEN idle ELSE simulate(idle, ends)

\* Game::render, lines 397-418: one message of the UI
handle_messageMutant(g, msg) ==
    IF msg.type = "SubmitName"
       THEN IF trim(g.name_input) # ""
               THEN [g EXCEPT !.current_nickname = trim(g.name_input),
                              !.settings = <<trim(g.name_input)>>,
                              !.game_state = "Playing",
                              !.ui_game_state = "Playing"]
               ELSE g
       ELSE [g EXCEPT !.name_input = msg.name]
handle_message(g, msg) ==
    IF msg.type = "SubmitName"
       THEN IF trim(g.name_input) # ""
               THEN [g EXCEPT !.current_nickname = trim(g.name_input),
                              !.settings = <<trim(g.name_input)>>,
                              !.irc_manager = <<trim(g.name_input)>>,
                              !.game_state = "Playing",
                              !.ui_game_state = "Playing"]
               ELSE g
       ELSE [g EXCEPT !.name_input = msg.name]

\* Game::render, line 396: for msg in ui_messages
RECURSIVE handle_messages(_, _)
handle_messages(g, msgs) ==
    IF msgs = <<>> THEN g
    ELSE handle_messages(handle_message(g, Head(msgs)), Tail(msgs))

\* The fields of Game and of its GameUI become those of g.
SetGame(g) ==
    /\ game_state' = g.game_state
    /\ ui_game_state' = g.ui_game_state
    /\ name_input' = g.name_input
    /\ ui_total_time' = g.ui_total_time
    /\ irc_manager' = g.irc_manager
    /\ current_nickname' = g.current_nickname
    /\ total_time' = g.total_time
    /\ game_ended' = g.game_ended
    /\ sent' = g.sent
    /\ scores' = g.scores
    /\ settings' = g.settings
    /\ stepped' = g.stepped

\* The game as Game::new builds it around the level.
GameNew(names) ==
    /\ \E saved \in {<<>>} \cup {<<n>> : n \in names} :
          /\ game_state = new(saved).game_state
          /\ ui_game_state = new(saved).ui_game_state
          /\ name_input = new(saved).name_input
          /\ ui_total_time = new(saved).ui_total_time
          /\ irc_manager = new(saved).irc_manager
          /\ current_nickname = new(saved).current_nickname
          /\ total_time = new(saved).total_time
          /\ game_ended = new(saved).game_ended
          /\ sent = new(saved).sent
          /\ scores = new(saved).scores
          /\ settings = new(saved).settings
          /\ stepped = new(saved).stepped
    /\ handler = "new"
    /\ events = <<>>
    /\ should_reset = FALSE
    /\ resets = 0
    /\ ui_messages = <<>>

\* LevelBuilderContext::new: the fields of a fresh context.
NewContextMutant ==
    [cursor |-> Origin, x_direction |-> 0 - 1, x_direction_changed |-> FALSE,
     operations |-> <<>>, is_first |-> TRUE, is_last |-> FALSE]
NewContext ==
    [cursor |-> Origin, x_direction |-> 1, x_direction_changed |-> FALSE,
     operations |-> <<>>, is_first |-> TRUE, is_last |-> FALSE]

\* generate_level_based_on_date, line 58: the number of blocks it asks for
DateBlocks == 10

\* ------------------------------------------------------------------ Init
\* A registry, a block count out of blocks and a day; a fresh context.
InitRun(blocks) ==
    /\ level_builder_operations_registry \in Registries
    /\ num_blocks \in blocks
    /\ day \in Days
    /\ cursor = NewContext.cursor
    /\ x_direction = NewContext.x_direction
    /\ x_direction_changed = NewContext.x_direction_changed
    /\ operations = NewContext.operations
    /\ is_first = NewContext.is_first
    /\ is_last = NewContext.is_last
    /\ rng = seed_from_beginning_of_day(day)
    /\ pc = "top"
    /\ bi = 0
    /\ spawn_chance_operations = <<>>
    /\ pi = 1
    /\ spawn_chance_total = 0
    /\ spawn_value = 0
    /\ ci = 1
    /\ executed = 0
    /\ drawn = 0
    /\ prepLog = <<>>
    /\ blk = [cursor |-> NewContext.cursor, x_direction |-> NewContext.x_direction,
              len |-> 0, found_last |-> FALSE]
    /\ draws = <<>>
    /\ ran = <<>>
    /\ path = <<>>
    /\ run = 1
    /\ prev = [day |-> day, operations |-> <<>>, path |-> <<>>]

\* generate(context, num_blocks) called with any block count; the game
\* around it is the one of a first start and plays no part in the run.
Init == InitRun((0 - 1)..MaxBlocks) /\ GameNew({})

\* --------------------------------------------------------------- actions
\* lines 69-77: the top of a block: the flags, then the candidate list.
BlockTop ==
    /\ pc = "top"
    /\ bi < num_blocks
    /\ is_first' = IsFirst(bi)
    /\ is_last' = IsLast(bi, num_blocks)
    /\ spawn_chance_operations' = BuildCandidates(registry)
    /\ pi' = 1
    /\ pc' = "prepare"
    /\ executed' = 0
    /\ drawn' = 0
    /\ prepLog' = <<>>
    /\ blk' = [cursor |-> cursor, x_direction |-> x_direction,
               len |-> Len(operations), found_last |-> is_last]
    /\ UNCHANGED <<level_builder_operations_registry, num_blocks, day, cursor,
                   x_direction, x_direction_changed, operations, rng, bi,
                   spawn_chance_total, spawn_value, ci, draws, ran, path, run, prev>>
    /\ UNCHANGED gameVars

\* The LevelBuilderContext as it stands.
Context ==
    [cursor |-> cursor, x_direction |-> x_direction,
     x_direction_changed |-> x_direction_changed, operations |-> operations,
     is_first |-> is_first, is_last |-> is_last, rng |-> rng]

\* lines 80-82: one prepare call.
Prepare ==
    /\ pc = "prepare"
    /\ pi <= Len(registry)
    /\ LET k == PrepareTarget(pi, Len(registry))
           given == PrepareInput(spawn_chance_operations, registry)
           after == prepare_context(registry[k], Context)
       IN /\ spawn_chance_operations' \in
                 prepare(registry[k], k, is_first, is_last, x_direction_changed, given)
          /\ prepLog' = Append(prepLog, k)
          /\ cursor' = after.cursor
          /\ x_direction' = after.x_direction
          /\ x_direction_changed' = after.x_direction_changed
          /\ operations' = after.operations
          /\ is_first' = after.is_first
          /\ is_last' = after.is_last
          /\ rng' = after.rng
    /\ pi' = pi + 1
    /\ UNCHANGED <<level_builder_operations_registry, num_blocks, day,
                   pc, bi, spawn_chance_total, spawn_value, ci, executed, drawn,
                   blk, draws, ran, path, run, prev>>
    /\ UNCHANGED gameVars

\* lines 85-92: the total, and the skip of a block with nothing to spawn.
SumWeights ==
    /\ pc = "prepare"
    /\ pi > Len(registry)
    /\ LET total == SumChances(spawn_chance_operations)
       IN IF NothingToSpawn(total)
             THEN /\ bi' = NextBlock(bi)
                  /\ pc' = "top"
                  /\ path' = Append(path, BlockResult(total))
                  /\ spawn_chance_operations' = <<>>
                  /\ spawn_chance_total' = 0
                  /\ pi' = 1
             ELSE /\ pc' = "draw"
                  /\ spawn_chance_total' = total
                  /\ UNCHANGED <<bi, path, spawn_chance_operations, pi>>
    /\ UNCHANGED <<level_builder_operations_registry, num_blocks, day, ctxVars,
                   spawn_value, ci, executed, drawn, prepLog, blk, draws, ran, run, prev>>
    /\ UNCHANGED gameVars

\* line 95: the draw.
Draw ==
    /\ pc = "draw"
    /\ spawn_value' = random_range(rng, spawn_chance_total)
    /\ rng' = RngNext(rng)
    /\ drawn' = drawn + 1
    /\ draws' = Append(draws, [bi |-> bi, raw |-> RngRaw(rng)])
    /\ ran' = ran
    /\ ci' = 1
    /\ pc' = "walk"
    /\ UNCHANGED <<level_builder_operations_registry, num_blocks, day, cursor,
                   x_direction, x_direction_changed, operations, is_first, is_last,
                   bi, spawn_chance_operations, pi, spawn_chance_total, executed,
                   prepLog, blk, path, run, prev>>
    /\ UNCHANGED gameVars

\* lines 96-100: one candidate of the walk; the pick pushes the clone.
Walk ==
    /\ pc = "walk"
    /\ ci <= Len(spawn_chance_operations)
    /\ LET v == spawn_value - spawn_chance_operations[ci].chance * Res
       IN /\ spawn_value' = v
          /\ IF Picked(v)
             THEN /\ operations' = PushClone(operations, spawn_chance_operations[ci].op)
                  /\ pc' = "execute"
                  /\ ci' = ci
             ELSE /\ ci' = ci + 1
                  /\ UNCHANGED <<operations, pc>>
    /\ UNCHANGED <<level_builder_operations_registry, num_blocks, day, cursor,
                   x_direction, x_direction_changed, is_first, is_last, rng, bi,
                   spawn_chance_operations, pi, spawn_chance_total, obsVars,
                   run, prev>>
    /\ UNCHANGED gameVars

\* lines 101-102: execute of the picked operation, then break.
Execute ==
    /\ pc = "execute"
    /\ \E c \in execute(spawn_chance_operations[ci].op, cursor, x_direction,
                        x_direction_changed, is_first, is_last) :
          /\ cursor' = c.cursor
          /\ x_direction' = c.x_direction
          /\ x_direction_changed' = c.x_direction_changed
          /\ is_first' = c.is_first
          /\ is_last' = c.is_last
    /\ executed' = executed + 1
    /\ ran' = Append(ran, [bi |-> bi, op |-> spawn_chance_operations[ci].op])
    /\ ci' = AfterExecute(ci, Len(spawn_chance_operations))
    /\ pc' = "walk"
    /\ UNCHANGED <<level_builder_operations_registry, num_blocks, day, operations,
                   rng, bi, spawn_chance_operations, pi, spawn_chance_total,
                   spawn_value, drawn, prepLog, blk, draws, path, run, prev>>
    /\ UNCHANGED gameVars

\* lines 96/104-105: the walk is over (by break or at the end of the list);
\* the block's locals go out of scope.
WalkEnd ==
    /\ pc = "walk"
    /\ ci > Len(spawn_chance_operations)
    /\ bi' = NextBlock(bi)
    /\ pc' = "top"
    /\ path' = Append(path, BlockResult(spawn_chance_total))
    /\ spawn_chance_operations' = <<>>
    /\ pi' = 1
    /\ spawn_chance_total' = 0
    /\ spawn_value' = 0
    /\ ci' = 1
    /\ UNCHANGED <<level_builder_operations_registry, num_blocks, day, ctxVars,
                   executed, drawn, prepLog, blk, draws, ran, run, prev>>
    /\ UNCHANGED gameVars

\* lines 69/110: the block count is exhausted; generate returns.
Return ==
    /\ pc = "top"
    /\ bi >= num_blocks
    /\ pc' = "done"
    /\ UNCHANGED <<level_builder_operations_registry, num_blocks, day, ctxVars,
                   bi, spawn_chance_operations, pi, spawn_chance_total,
                   spawn_value, ci, obsVars, run, prev>>
    /\ UNCHANGED gameVars

\* Game::reset -> generate_level_based_on_date: a fresh context, the random
\* source seeded from the day (the same day, or the next one),
\* the same registry and block count.
Regenerate ==
    /\ pc = "done"
    /\ run < MaxRuns
    /\ run' = run + 1
    /\ prev' = [day |-> day, operations |-> operations, path |-> path]
    /\ \E d \in {day, (day + 1) % (Res * Res)} :
          /\ day' = d
          /\ rng' = RunSeed(d, rng)
    /\ cursor' = NewContext.cursor
    /\ x_direction' = NewContext.x_direction
    /\ x_direction_changed' = NewContext.x_direction_changed
    /\ operations' = NewContext.operations
    /\ is_first' = NewContext.is_first
    /\ is_last' = NewContext.is_last
    /\ pc' = "top"
    /\ bi' = 0
    /\ spawn_chance_operations' = <<>>
    /\ pi' = 1
    /\ spawn_chance_total' = 0
    /\ spawn_value' = 0
    /\ ci' = 1
    /\ executed' = 0
    /\ drawn' = 0
    /\ prepLog' = <<>>
    /\ blk' = [cursor |-> NewContext.cursor, x_direction |-> NewContext.x_direction,
               len |-> 0, found_last |-> FALSE]
    /\ draws' = <<>>
    /\ ran' = <<>>
    /\ path' = <<>>
    /\ UNCHANGED <<level_builder_operations_registry, num_blocks>>
    /\ UNCHANGED gameVars

\* One generation run, any registry.
Next ==
    \/ BlockTop
    \/ Prepare
    \/ SumWeights
    \/ Draw
    \/ Walk
    \/ Execute
    \/ WalkEnd
    \/ Return

Spec == Init /\ [][Next]_vars

\* generate is one call on one thread: once called it runs until it returns.
SpecFair == Init /\ [][Next]_vars /\ WF_vars(Next)

\* Two generation runs (Game::new, then Game::reset) over a registry whose
\* operations are functions of the context they are given.
Deterministic(reg) == \A i \in 1..Len(reg) : reg[i] # "Other"

InitTwin == Init /\ Deterministic(level_builder_operations_registry)

NextTwin ==
    \/ BlockTop
    \/ Prepare
    \/ SumWeights
    \/ Draw
    \/ Walk
    \/ Execute
    \/ WalkEnd
    \/ Return
    \/ Regenerate

SpecTwin == InitTwin /\ [][NextTwin]_vars

\* generate_level_based_on_date as Game::new and Game::reset call it: the
\* block count is the one of line 58.
InitDate ==
    /\ InitRun({DateBlocks})
    /\ Deterministic(level_builder_operations_registry)
    /\ GameNew({})

\* ------------------------------------------------------- the game's steps
\* Game::update: one frame's events, one simulation step.
Update ==
    /\ game_state = "Playing" => total_time < MaxTicks
    /\ \E evs \in SeqsUpTo(KeyEvents, MaxEvents), ends \in BOOLEAN :
          /\ ends => scores < MaxFinishes
          /\ SetGame(update(Game, evs, ends))
          /\ events' = evs
          /\ should_reset' = ShouldReset(evs, game_state)
          /\ resets' = resets + (IF ShouldReset(evs, game_state) THEN 1 ELSE 0)
    /\ handler' = "update"
    /\ ui_messages' = <<>>
    /\ UNCHANGED levelVars

\* Game::render: the frame is drawn and the messages of the view handled.
Render ==
    /\ \E msgs \in SeqsUpTo(view(ui_game_state), MaxMessages) :
          /\ SetGame(handle_messages(Game, msgs))
          /\ ui_messages' = msgs
    /\ handler' = "render"
    /\ events' = <<>>
    /\ should_reset' = FALSE
    /\ UNCHANGED <<levelVars, resets>>

\* Game::render, lines 351-354: no surface texture, nothing is drawn.
RenderSkipped ==
    /\ handler' = "render"
    /\ ui_messages' = <<>>
    /\ events' = <<>>
    /\ should_reset' = FALSE
    /\ UNCHANGED <<levelVars, gameFields, resets>>

\* The level is built (its run is the one of Spec); the game takes frames.
InitGame ==
    /\ InitRun({0})
    /\ level_builder_operations_registry = <<>>
    /\ day = 0
    /\ GameNew({"ann"})

NextGame ==
    \/ Update
    \/ Render
    \/ RenderSkipped

SpecGame == InitGame /\ [][NextGame]_vars

SpecDate == InitDate /\ [][NextTwin]_vars

\* ---------------------------------------------------------------- claims
Last(seq) == seq[Len(seq)]
Max0(n) == IF n < 0 THEN 0 ELSE n

\* A block has just ended (the loop is back at its top, or generate is done).
BlockOver == pc \in {"top", "done"} /\ bi > 0 /\ path # <<>>

\* The block is in its prepare pass, at the draw, in the walk before any
\* execute, or about to call execute.
BeforeExecuteReturns ==
    \/ pc \in {"prepare", "draw", "execute"}
    \/ pc = "walk" /\ executed = 0

\* C1: a block whose candidate weights sum to a total <= 0 after the prepare
\* pass ends with no execute call, with the cursor and x_direction it began
\* with, and with context.operations as long as it was.
C1_ZeroTotalSkips ==
    (BlockOver /\ Last(path).nothing) =>
        /\ executed = 0
        /\ cursor = blk.cursor
        /\ x_direction = blk.x_direction
        /\ Len(operations) = blk.len

\* A block was skipped after an earlier block had executed an operation
\* that moved the cursor.
C1_Witness ==
    /\ BlockOver
    /\ Last(path).nothing
    /\ level_builder_operations_registry # <<>>
    /\ blk.len > 0
    /\ cursor # Origin

\* C2: in every block the engine calls execute zero times or once.
C2_AtMostOneExecute == executed <= 1

\* The first of two candidates was picked and executed; the walk is over
\* with the second candidate never looked at.
C2_Witness ==
    /\ pc = "walk"
    /\ executed = 1
    /\ level_builder_operations_registry = <<"Spawn", "Straight">>
    /\ Last(operations) = "Spawn"
    /\ ci > Len(spawn_chance_operations)

\* C3: for num_blocks >= 1, through the prepare pass of block bi and up to
\* its execute call, is_first = (bi = 0) and is_last = (bi = num_blocks - 1),
\* whatever an operation of an earlier block wrote to the flags.
C3_BoundaryFlags ==
    (num_blocks >= 1 /\ BeforeExecuteReturns) =>
        /\ is_first = (bi = 0)
        /\ is_last = (bi = num_blocks - 1)

\* The middle block of three found is_last set by the operation executed in
\* the block before, and runs with both flags false.
C3_Witness ==
    /\ pc = "prepare"
    /\ num_blocks = 3
    /\ bi = 1
    /\ blk.found_last
    /\ ~is_last
    /\ ~is_first

\* For num_blocks = 1 both flags are true in block 0.
C3_WitnessSingle ==
    /\ pc = "execute"
    /\ num_blocks = 1
    /\ bi = 0
    /\ is_first
    /\ is_last

NoBlockSkipped == \A i \in 1..Len(path) : ~path[i].nothing

\* C4 as stated: operations.len() <= num_blocks at every point, and at the
\* end the length equals num_blocks iff no block was skipped.
C4_Original ==
    /\ Len(operations) <= num_blocks
    /\ (pc = "done" => (Len(operations) = num_blocks <=> NoBlockSkipped))

\* C4: operations.len() <= max(num_blocks, 0) at every point; a finished
\* block with total > 0 has appended exactly one entry and one with
\* total <= 0 none; at the end the length equals max(num_blocks, 0) iff no
\* block was skipped.
C4_HistoryBound ==
    /\ Len(operations) <= Max0(num_blocks)
    /\ BlockOver =>
          Len(operations) = blk.len + (IF Last(path).nothing THEN 0 ELSE 1)
    /\ (pc = "done" => (Len(operations) = Max0(num_blocks) <=> NoBlockSkipped))

\* A run of three blocks ended with the middle one skipped: two entries.
C4_Witness ==
    /\ pc = "done"
    /\ num_blocks = 3
    /\ Len(operations) = 2
    /\ path[2].nothing
    /\ ~path[1].nothing
    /\ ~path[3].nothing

\* The chances of the candidate list, in list order.
Chances == [i \in 1..Len(spawn_chance_operations) |-> spawn_chance_operations[i].chance]

\* The sum of the first i weights, in the unit of spawn_value (1/Res).
RECURSIVE CumulativeChance(_)
CumulativeChance(i) ==
    IF i = 0 THEN 0 ELSE CumulativeChance(i - 1) + Chances[i] * Res

\* The value drawn in this block, in the unit of spawn_value: the draw is
\* DrawnValue / Res.
DrawnValue == Last(draws).raw * spawn_chance_total

\* C5 as stated: with weights [2, 1, 1] a draw in [0,2) selects the first
\* candidate, a draw in [2,3) the second (the draw 2 included) and a draw
\* in [3,4) the third (the draw 3 included).
C5_Original ==
    (pc = "execute" /\ Chances = <<2, 1, 1>>) =>
        /\ DrawnValue < 2 * Res => ci = 1
        /\ (2 * Res <= DrawnValue /\ DrawnValue < 3 * Res) => ci = 2
        /\ 3 * Res <= DrawnValue => ci = 3

\* C6: with total > 0 and a draw d in [0, total), the candidate selected is
\* the first one, in list order, at which d minus the sum of the weights up
\* to and including it is <= 0; a draw on a cumulative-weight boundary
\* selects the earlier candidate.
C6_FirstNonPositive ==
    pc = "execute" =>
        /\ spawn_chance_total > 0
        /\ 0 <= DrawnValue /\ DrawnValue < spawn_chance_total * Res
        /\ ci \in 1..Len(spawn_chance_operations)
        /\ DrawnValue - CumulativeChance(ci) <= 0
        /\ \A j \in 1..(ci - 1) : DrawnValue - CumulativeChance(j) > 0

\* The draw is exactly the cumulative weight of the first two of three
\* candidates, the third has a positive weight, and the second is selected.
C6_Witness ==
    /\ pc = "execute"
    /\ Len(spawn_chance_operations) = 3
    /\ ci = 2
    /\ DrawnValue = CumulativeChance(2)
    /\ DrawnValue > 0
    /\ Chances[3] > 0

Scenario == <<"Spawn", "Finish", "Straight">>

\* generate(context, 3) over the registry [Spawn, Finish, Straight] returned.
ScenarioDone ==
    /\ level_builder_operations_registry = Scenario
    /\ num_blocks = 3
    /\ pc = "done"

\* C7 as stated: the history is [Spawn, Straight, Finish] for every seed.
C7_Original == ScenarioDone => operations = <<"Spawn", "Straight", "Finish">>

\* C7: over [Spawn, Finish, Straight] with three blocks no block is skipped
\* and the history has three entries decided by the draws: entry 0 is Spawn
\* for a draw <= 1 and Straight above; entry 1 is Straight, but Spawn for a
\* draw of exactly 0; entry 2 is Finish for a draw in (0, 1], Spawn for a
\* draw of exactly 0 and Straight above 1.
C7_ScenarioHistory ==
    ScenarioDone =>
        /\ Len(operations) = 3
        /\ Len(draws) = 3
        /\ operations[1] = (IF draws[1].raw * 4 <= Res THEN "Spawn" ELSE "Straight")
        /\ operations[2] = (IF draws[2].raw = 0 THEN "Spawn" ELSE "Straight")
        /\ operations[3] = (IF draws[3].raw = 0 THEN "Spawn"
                            ELSE IF draws[3].raw * 4 <= Res THEN "Finish"
                            ELSE "Straight")

\* The scenario ended with Straight first and Finish last.
C7_Witness ==
    /\ ScenarioDone
    /\ operations = <<"Straight", "Straight", "Finish">>

\* The scenario ended with the history the claim expects.
C7_WitnessExpected ==
    /\ ScenarioDone
    /\ operations = <<"Spawn", "Straight", "Finish">>

IsPrefix(a, b) == Len(a) <= Len(b) /\ a = SubSeq(b, 1, Len(a))

C8_WitnessOtherDay ==
    /\ run = 2
    /\ day # prev.day
    /\ pc = "done"
    /\ operations # prev.operations

\* The registry indices 1..n in order.
UpTo(n) == [i \in 1..n |-> i]

\* C9 (state part): during the prepare pass of a block the calls made so far
\* are those of registry entries 1..pi-1, once each and in registry order,
\* and no draw has been made; from the draw on, the calls made are exactly
\* those of entries 1..n in registry order.
C9_PrepareOrder ==
    /\ pc = "prepare" =>
          (prepLog = UpTo(pi - 1) /\ drawn = 0 /\ spawn_chance_total = 0)
    /\ pc \in {"draw", "walk", "execute"} =>
          prepLog = UpTo(Len(level_builder_operations_registry))

\* C9 (step part): the list the k-th prepare call leaves is what that
\* operation's prepare makes of the list left by calls 1..k-1, and the total
\* is the sum over the list the last call left.
C9_PrepareSeesEdits ==
    /\ (pc = "prepare" /\ pi' = pi + 1) =>
          spawn_chance_operations' \in
              prepare(level_builder_operations_registry[pi], pi, is_first, is_last,
                      x_direction_changed, spawn_chance_operations)
    /\ (pc = "prepare" /\ pc' = "draw") =>
          spawn_chance_total' = SumChances(spawn_chance_operations)

\* C9: in each block prepare is called once per registry entry, in registry
\* order, all calls finish before the total is computed and the draw made,
\* and the k-th call is given the list with the edits of calls 1..k-1.
C9_PreparePass == [](C9_PrepareOrder) /\ [][C9_PrepareSeesEdits]_vars

\* Before the third prepare call of a block, the first two entries of the
\* list no longer have their default weights, each changed by another call.
C9_Witness ==
    /\ pc = "prepare"
    /\ pi = 3
    /\ level_builder_operations_registry = <<"Finish", "Other", "Other">>
    /\ Chances[1] = 0
    /\ Chances[2] = MaxWeight
    /\ MaxWeight # 1

\* C10: at the start of every block's prepare pass the candidate list has
\* one entry per registry entry, in registry order, each with the weight
\* default_spawn_chance() of its operation, whatever earlier blocks wrote.
C10_FreshCandidates ==
    (pc = "prepare" /\ pi = 1) =>
        /\ Len(spawn_chance_operations) = Len(level_builder_operations_registry)
        /\ \A i \in 1..Len(spawn_chance_operations) :
              /\ spawn_chance_operations[i].op = level_builder_operations_registry[i]
              /\ spawn_chance_operations[i].chance =
                     default_spawn_chance(level_builder_operations_registry[i])

\* The third block starts with the default weights 1 and 3 although the
\* block before it was skipped with every weight written to 0 or below.
C10_Witness ==
    /\ pc = "prepare"
    /\ pi = 1
    /\ bi = 2
    /\ level_builder_operations_registry = <<"Finish", "Straight", "Other">>
    /\ Last(path).nothing
    /\ Chances = <<1, 3, 1>>

\* C11: with an empty registry, generate(context, n) runs every block with
\* an empty candidate list and a total of 0: no draw is asked of an empty
\* range, no execute call is made, context.operations stays empty, the
\* cursor and x_direction keep their initial values, and generate returns
\* after max(n, 0) skipped blocks.
C11_EmptyRegistry ==
    level_builder_operations_registry = <<>> =>
        /\ pc \in {"top", "prepare", "done"}
        /\ spawn_chance_operations = <<>>
        /\ drawn = 0
        /\ executed = 0
        /\ ran = <<>>
        /\ operations = <<>>
        /\ cursor = Origin
        /\ x_direction = 1
        /\ \A i \in 1..Len(path) : path[i].nothing
        /\ pc = "done" => Len(path) = Max0(num_blocks)

\* generate has returned from MaxBlocks blocks over the empty registry.
C11_Witness ==
    /\ level_builder_operations_registry = <<>>
    /\ num_blocks = MaxBlocks
    /\ pc = "done"
    /\ Len(path) = MaxBlocks
    /\ operations = <<>>

\* The loop starts block bi only after bi blocks have ended, and only for
\* bi < num_blocks; a block that ends, skipped or not, moves on to bi + 1.
C12_EachBlockOnce ==
    /\ (pc = "top" /\ pc' = "prepare") => (bi = Len(path) /\ bi < num_blocks /\ bi' = bi)
    /\ (pc # "top" /\ pc' = "top") => (bi' = bi + 1 /\ Len(path') = bi')
    /\ pc' = "done" => (bi' = Max0(num_blocks) /\ Len(path') = bi')

\* C12: generate always terminates: for every registry, every weight the
\* prepare hooks write and every draw, it runs exactly max(num_blocks, 0)
\* block iterations, each block index once and in order, a skipped block
\* never retried, and then returns.
C12_Terminates ==
    /\ <>(pc = "done")
    /\ [][C12_EachBlockOnce]_vars

\* generate has returned from MaxBlocks blocks of which the second was
\* skipped and the other two executed an operation.
C12_Witness ==
    /\ pc = "done"
    /\ num_blocks = MaxBlocks
    /\ Len(path) = MaxBlocks
    /\ path[2].nothing
    /\ Len(operations) = MaxBlocks - 1

\* The places of the list seq that hold the operation variant k.
Places(seq, k) == {i \in 1..Len(seq) : seq[i] = k}

\* C13: a variant registered more than once has, at the start of every
\* block's prepare pass, one candidate per registration, each with its
\* default weight (so the variant's base weight counts once per
\* registration), and at the end of the pass its prepare hook has run once
\* per registration; no registration is dropped or merged.
C13_DuplicatesKept ==
    /\ Len(level_builder_operations_registry) \in 0..MaxOps
    /\ pc = "prepare" =>
          \A k \in OpKinds :
              LET regd == Places(level_builder_operations_registry, k)
                  cand == {i \in 1..Len(spawn_chance_operations) :
                              spawn_chance_operations[i].op = k}
              IN /\ cand = regd
                 /\ pi = 1 =>
                       \A i \in cand :
                           spawn_chance_operations[i].chance = default_spawn_chance(k)
                 /\ pi = 1 =>
                       SumChances(spawn_chance_operations) =
                           SumChances([i \in 1..Len(spawn_chance_operations) |->
                               [chance |-> default_spawn_chance(spawn_chance_operations[i].op)]])
                 /\ pi > Len(level_builder_operations_registry) =>
                       {prepLog[j] : j \in 1..Len(prepLog)} \cap regd = regd
                 /\ Cardinality({j \in 1..Len(prepLog) : prepLog[j] \in regd}) =
                       Cardinality({i \in regd : i < pi})

\* "Straight" (default weight 3) is registered twice: the second block's
\* prepare pass is over, both hooks have run, and the two candidates still
\* carry 3 + 3.
C13_Witness ==
    /\ level_builder_operations_registry = <<"Straight", "Spawn", "Straight">>
    /\ pc = "prepare"
    /\ bi = 1
    /\ pi = 4
    /\ prepLog = <<1, 2, 3>>
    /\ Chances = <<3, 0, 3>>

\* From the top of a block to its draw the context is the one the block
\* began with.
C14_ContextAsAtTop ==
    pc \in {"prepare", "draw"} =>
        /\ cursor = blk.cursor
        /\ x_direction = blk.x_direction
        /\ Len(operations) = blk.len
        /\ drawn = 0

\* No step of the prepare pass, the summing of the weights included, writes
\* the cursor, the direction, the direction flag, the history or the
\* random source.
C14_PrepareStepsKeepContext ==
    pc = "prepare" =>
        UNCHANGED <<cursor, x_direction, x_direction_changed, operations, rng>>

C15_PushBeforeExecute ==
    /\ pc = "execute" =>
          /\ operations # <<>>
          /\ Last(operations) = spawn_chance_operations[ci].op
          /\ Len(operations) = Len(ran) + 1
          /\ Len(operations) = blk.len + 1
    /\ pc # "execute" => Len(operations) = Len(ran)
    /\ \A i \in 1..Len(ran) : operations[i] = ran[i].op
    /\ \A i, j \in 1..Len(ran) : i < j => ran[i].bi < ran[j].bi

\* The third operation of a run is about to execute, with two different
\* operations in the history before it and itself at the end.
C15_Witness ==
    /\ pc = "execute"
    /\ Len(ran) = 2
    /\ ran[1].op = "Spawn"
    /\ ran[2].op = "Reverse"
    /\ operations = <<"Spawn", "Reverse", "Straight">>
    /\ spawn_chance_operations[ci].op = "Straight"

\* A reversal was executed in block b of this run.
ReversedIn(b) == \E j \in 1..Len(ran) : ran[j].bi = b /\ ran[j].op = "Reverse"

\* C16: x_direction_changed lives for one block: during the prepare pass
\* of a block it is true exactly when a reversal was executed in the block
\* just before it, so a flag set in block i is true in block i + 1 and
\* false again in block i + 2 unless block i + 1 executed a reversal.
C16_Original ==
    pc = "prepare" =>
        (x_direction_changed <=> (bi > 0 /\ ReversedIn(bi - 1)))

\* What the run does keep: the flag is set in the prepare pass of the block
\* after a reversal, and it is never set before the first reversal.
C16_FlagSetAfterReversal ==
    pc = "prepare" =>
        /\ (bi > 0 /\ ReversedIn(bi - 1)) => x_direction_changed
        /\ x_direction_changed => \E b \in 0..(bi - 1) : ReversedIn(b)

\* The only operation is the reversal: it ran in block 0, its hook zeroed
\* it in block 1, which was skipped, and block 2 still finds the flag set.
C16_StaleFlag ==
    /\ level_builder_operations_registry = <<"Reverse">>
    /\ pc = "prepare"
    /\ bi = 2
    /\ path[2].nothing
    /\ operations = <<"Reverse">>
    /\ x_direction_changed

\* The random source after n values have been taken from the state s.
RECURSIVE RngAfter(_, _)
RngAfter(s, n) == IF n = 0 THEN s ELSE RngAfter(RngNext(s), n - 1)

\* The blocks of this run, ended or under way, whose total was above 0.
BlocksWithDraw ==
    Cardinality({i \in 1..Len(path) : ~path[i].nothing})
        + (IF pc \in {"walk", "execute"} THEN 1 ELSE 0)

\* C17: the engine takes one value from the random source in a block whose
\* total is above 0 and none in a block whose total is 0 or below; a draw
\* is only asked of a range 0..total with total > 0, and the value d drawn
\* satisfies 0 <= d < total.
C17_OneDrawPerBlock ==
    /\ pc = "draw" => (spawn_chance_total > 0 /\ drawn = 0)
    /\ pc \in {"walk", "execute"} => (spawn_chance_total > 0 /\ drawn = 1)
    /\ (pc = "walk" /\ ci = 1 /\ executed = 0) =>
          (0 <= spawn_value /\ spawn_value < spawn_chance_total * Res)
    /\ BlockOver => drawn = (IF Last(path).nothing THEN 0 ELSE 1)
    /\ Len(draws) = BlocksWithDraw
    /\ \A i, j \in 1..Len(draws) : i < j => draws[i].bi < draws[j].bi
    /\ rng = RngAfter(seed_from_beginning_of_day(day), Len(draws))

\* The third block has just drawn the largest value the source gives, from
\* a total of 4; the block before it was skipped without a draw.
C17_Witness ==
    /\ pc = "walk"
    /\ ci = 1
    /\ bi = 2
    /\ path[2].nothing
    /\ Len(draws) = 2
    /\ spawn_chance_total = 4
    /\ spawn_value = (Res - 1) * 4

\* C18: a candidate whose weight after the prepare pass is 0 or negative
\* is never the one selected and executed, wherever it stands in the list
\* and whatever the draw, the draw of exactly 0 on a first candidate
\* included.
C18_Original == pc = "execute" => Chances[ci] > 0

\* What the walk does keep: a candidate of weight 0 or below is selected
\* only when it is the first of the list, its weight is exactly 0 and the
\* draw is exactly 0; a negative weight is never selected.
C18_OnlyFirstOnZeroDraw ==
    (pc = "execute" /\ Chances[ci] <= 0) =>
        /\ ci = 1
        /\ Chances[1] = 0
        /\ Last(draws).raw = 0

\* The spawn point, zeroed by its own hook outside the first block, is
\* about to execute in the second block on a draw of exactly 0.
C18_ZeroWeightSelected ==
    /\ level_builder_operations_registry = <<"Spawn", "Straight">>
    /\ pc = "execute"
    /\ bi = 1
    /\ Chances = <<0, 3>>
    /\ Last(draws).raw = 0
    /\ ci = 1
    /\ Last(operations) = "Spawn"

\* C19: generate_level_based_on_date asks for exactly 10 blocks on a fresh
\* context: the prepare pass of the first block finds the cursor at the
\* origin, x_direction = +1, x_direction_changed = false and an empty
\* history, on the first run and on every run after a reset, and the
\* history never holds more than 10 entries.
C19_FreshContextTenBlocks ==
    /\ num_blocks = 10
    /\ (bi = 0 /\ pc \in {"top", "prepare", "draw"}) =>
          /\ cursor = [x |-> 0, y |-> 0]
          /\ x_direction = 1
          /\ x_direction_changed = FALSE
          /\ operations = <<>>
    /\ Len(operations) <= 10
    /\ bi <= 10
    /\ pc = "done" => Len(path) = 10

\* The level was built a second time after a reset: both runs went through
\* all ten blocks, and the second one started from a fresh context although
\* the first had left a history of ten entries and a reversed direction.
C19_Witness ==
    /\ run = 2
    /\ pc = "done"
    /\ Len(operations) = 10
    /\ Len(prev.operations) = 10
    /\ \E i \in 1..10 : prev.path[i].x_direction = 0 - 1
    /\ path[1].x_direction = 1

\* The text of the name input when message i of msgs is handled, start
\* being the text before the first message.
InputAt(msgs, i, start) ==
    LET prior == {j \in 1..(i - 1) : msgs[j].type = "UpdateNameInput"}
    IN IF prior = {} THEN start
       ELSE msgs[CHOOSE j \in prior : \A k \in prior : k <= j].name

\* The last handler was render and one of its messages was a SubmitName
\* that found a name input which is not blank.
NameSubmitted ==
    /\ handler' = "render"
    /\ \E i \in 1..Len(ui_messages') :
          /\ ui_messages'[i] = SubmitName
          /\ trim(InputAt(ui_messages', i, name_input)) # ""

\* The last handler was update and one of its events was R going down.
RPressed ==
    /\ handler' = "update"
    /\ \E i \in 1..Len(events') : events'[i].key = "KeyR" /\ events'[i].pressed

\* C20: the game state changes only from NameEntry to Playing, by a
\* SubmitName that finds a non-blank name, from Playing to Finished, by an
\* update in which a car has game_ended, and from Finished to Playing, by
\* an update that finds R pressed and resets; a render that starts in
\* Playing or Finished leaves the state as it is, and an update that
\* starts in Playing or NameEntry never resets.
C20_StateMachine ==
    /\ game_state' # game_state =>
          \/ game_state = "NameEntry" /\ game_state' = "Playing" /\ NameSubmitted
          \/ /\ game_state = "Playing" /\ game_state' = "Finished"
             /\ handler' = "update" /\ game_ended'
          \/ /\ game_state = "Finished" /\ game_state' = "Playing"
             /\ RPressed /\ should_reset' /\ total_time' = 1
    /\ (handler' = "render" /\ game_state \in {"Playing", "Finished"}) =>
          game_state' = game_state
    /\ (handler' = "update" /\ game_state \in {"Playing", "NameEntry"}) =>
          /\ ~should_reset'
          /\ total_time' >= total_time
    /\ (handler' = "update" /\ game_state = "NameEntry") =>
          game_state' = "NameEntry"
    /\ should_reset' => (game_state = "Finished" /\ RPressed)

C20_WitnessSubmitWhilePlaying ==
    /\ handler = "render"
    /\ ui_messages = <<SubmitName, SubmitName>>
    /\ game_state = "Playing"
    /\ name_input = "ann"

\* The run is finished, the name input still holds the name typed at the
\* start, and the SubmitName handler, which does not look at the state,
\* would start the game again if a view sent the message now.
C20_HandlerUnguarded ==
    /\ game_state = "Finished"
    /\ trim(name_input) # ""
    /\ view(ui_game_state) = {}
    /\ handle_message(Game, SubmitName).game_state = "Playing"

\* One step of the game as C21 sees it: a run that goes from Playing to
\* Finished sends one BEST_TIME and adds one score; nothing else sends or
\* adds; while the state stays Finished, with no reset in between, nothing
\* is sent and total_time stands still.
C21_FinishStep ==
    /\ (game_state = "Playing" /\ game_state' = "Finished") =>
          (sent' = sent + 1 /\ scores' = scores + 1 /\ handler' = "update")
    /\ (sent' # sent \/ scores' # scores) =>
          /\ sent' = sent + 1
          /\ scores' = scores + 1
          /\ handler' = "update"
          /\ game_state' = "Finished"
          /\ game_state = "Playing" \/ (game_state = "Finished" /\ should_reset')
    /\ (game_state = "Finished" /\ game_state' = "Finished"
            /\ ~(handler' = "update" /\ should_reset')) =>
          (sent' = sent /\ scores' = scores /\ total_time' = total_time)

\* Every BEST_TIME but the first has a reset of its own before it, and
\* every finish has its message.
C21_OnePerRun ==
    /\ sent = scores
    /\ sent <= resets + 1
    /\ game_state = "Finished" => sent >= 1
    /\ (game_state = "Finished" /\ sent >= 1) => sent = resets + 1

\* C21: each Playing -> Finished transition sends exactly one BEST_TIME
\* and adds exactly one leaderboard score; while the state stays Finished
\* no further BEST_TIME is sent and total_time does not change; a new
\* BEST_TIME only follows a reset.
C21_OneBestTimePerFinish ==
    /\ [](C21_OnePerRun)
    /\ [][C21_FinishStep]_vars

\* A second run has finished after a reset, two steps into it: two
\* messages, two scores, one reset.
C21_Witness ==
    /\ game_state = "Finished"
    /\ sent = 2
    /\ scores = 2
    /\ resets = 1
    /\ handler = "update"
    /\ ~should_reset
    /\ events = <<[key |-> "KeyA", pressed |-> TRUE]>>
    /\ total_time = 2

\* C22: an update call made while the state is NameEntry steps no
\* simulation, updates no entity and leaves total_time (and every other
\* field of the game) as it was; total_time goes up by one fixed step of
\* 0.005 in an update in which the state is Playing, and in no other call.
C22_UpdateStep ==
    /\ (handler' = "update" /\ game_state = "NameEntry") =>
          /\ ~stepped'
          /\ total_time' = total_time
          /\ game_ended' = game_ended
          /\ game_state' = "NameEntry"
          /\ UNCHANGED <<ui_total_time, sent, scores, name_input, irc_manager>>
    /\ (handler' = "update" /\ game_state = "Playing") =>
          (stepped' /\ total_time' = total_time + 1 /\ ui_total_time' = total_time')
    /\ (handler' = "update" /\ game_state = "Finished") =>
          /\ stepped'
          /\ total_time' = (IF should_reset' THEN 1 ELSE total_time)
    /\ total_time' # total_time => handler' = "update"
    /\ total_time' > total_time =>
          \/ game_state = "Playing" /\ total_time' = total_time + 1
          \/ game_state = "Finished" /\ should_reset' /\ total_time' = 1

C22_NameEntryIdle == [][C22_UpdateStep]_vars

\* An update with a key event was taken while the name, half typed, was
\* being entered: nothing was stepped and the clock stands at 0.
C22_Witness ==
    /\ game_state = "NameEntry"
    /\ handler = "update"
    /\ events = <<[key |-> "KeyR", pressed |-> TRUE]>>
    /\ name_input = " "
    /\ ~stepped
    /\ total_time = 0

\* Two steps into a run that began at the name entry.
C22_WitnessPlaying ==
    /\ game_state = "Playing"
    /\ handler = "update"
    /\ stepped
    /\ total_time = 2
    /\ settings = <<"bob">>

\* C23: after Game::new and after every update and render call, the IRC
\* manager is there whenever the state is Playing or Finished, made for
\* the current nickname, and it is missing only while the state is
\* NameEntry; so every finished run has sent its BEST_TIME through one.
C23_ManagerWhenPlaying ==
    /\ game_state \in {"Playing", "Finished"} =>
          (irc_manager # <<>> /\ irc_manager = <<current_nickname>>)
    /\ irc_manager = <<>> => game_state = "NameEntry"
    /\ game_state = "Finished" => sent = scores

\* A run that began at the name entry, where there was no manager, has
\* finished and sent its time through the manager made for "bob".
C23_Witness ==
    /\ game_state = "Finished"
    /\ settings = <<"bob">>
    /\ irc_manager = <<"bob">>
    /\ sent = 1
    /\ scores = 1

\* A game started with a saved name has its manager from Game::new on.
C23_WitnessSavedName ==
    /\ handler = "new"
    /\ game_state = "Playing"
    /\ irc_manager = <<"ann">>

\* C24: after Game::new and after every update and render call the UI's
\* game_state is the game's game_state, so the view that is shown (name
\* entry, HUD or leaderboard) is the one of the state the game is in.
C24_UiMirrorsState ==
    /\ game_state \in GameStates
    /\ ui_game_state = game_state
    /\ view(ui_game_state) = view(game_state)
    /\ (view(ui_game_state) = name_entry_view) <=> (game_state = "NameEntry")

\* The game went through all three transitions, the last one a reset, and
\* the UI shows the HUD of the new run.
C24_Witness ==
    /\ settings = <<"bob">>
    /\ resets = 1
    /\ scores = 1
    /\ game_state = "Playing"
    /\ ui_game_state = "Playing"
    /\ handler = "update"

\* The run is finished and the UI shows the leaderboard.
C24_WitnessFinished ==
    /\ game_state = "Finished"
    /\ ui_game_state = "Finished"
    /\ settings = <<"ann">>
    /\ handler = "render"

====
